---- MODULE Spec2Model ----
(***************************************************************************)
(* Garden of Tasks: the task cache / sync reconciler of src/src/App.tsx,   *)
(* with the two localStorage services it writes through                    *)
(* (src/src/services/taskStorage.ts, tokenStorage in src/unnamed/part_000) *)
(* and the AsanaConnect mount effect that re-connects with a saved token.  *)
(*                                                                         *)
(* One action is one run-to-completion piece of JavaScript: an event       *)
(* handler, a timer callback, or the continuation of an async function     *)
(* from one await to the next.  Time is counted in seconds.                *)
(***************************************************************************)
EXTENDS Integers, Sequences, FiniteSets, TLC

\* ------------------------------------------------------------------ bounds
MaxGid == 2          \* task identifiers 1..MaxGid; gid 0 is "record has no gid"
MaxVer == 2          \* distinguishable field contents of one task
MaxPages == 2        \* pages one pagination loop is allowed to request
MaxSlack == 1        \* seconds the clock may run past one staleness window
MaxFg == 1           \* foreground fetches followed at the same time
MaxRacingFg == 2     \* the same, where user events during a fetch are followed
MaxCalls == 3        \* page loads and fetch calls started in all
MaxChain == 3        \* pages of a listing followed for its own sake

\* --------------------------------------------------------- program constants
FIVE_MINUTES_MS == 5 * 60            \* isCacheStale threshold, in seconds
THIRTY_DAYS == 30 * 24 * 60 * 60     \* getThirtyDaysAgoISOString
ONE_YEAR == 365 * 24 * 60 * 60       \* getOneYearAgoISOString
DemoMockCount == 15                  \* generateMockTasks(15) in demo mode
ErrorMockCount == 20                 \* generateMockTasks(20) on failure
DEMO == "demo"

MaxNow == 1 + FIVE_MINUTES_MS + MaxSlack

\* ------------------------------------------------------------------ values
None == <<>>
Some(x) == <<x>>
IsSome(o) == o # <<>>
Val(o) == o[1]

Tokens == {"tokA", "tokB"}

\* A task record as the remote source returns it: gid 0 stands for a record
\* without gid, ver for the rest of its fields, completed for its flag.
\* Task 1 is the one whose fields change on the server and that is seen
\* uncompleted.
RemoteTask(g, v, c) == [gid |-> g, id |-> 0, ver |-> v, completed |-> c]
RemoteTasks ==
    {RemoteTask(g, 1, TRUE) : g \in 0..MaxGid}
    \cup {RemoteTask(1, v, c) : v \in 1..MaxVer, c \in BOOLEAN}

\* generateMockTasks(count): records with an id and no gid.
generateMockTasks(count) ==
    [i \in 1..count |-> [gid |-> 0, id |-> i, ver |-> 0, completed |-> TRUE]]

\* A page of the task listing: at most one record, and whether a next_page
\* offset comes with it.
Pages == {<<>>} \cup {<<t>> : t \in RemoteTasks}

\* A filter that lets every record through.
FilterNothing(data) == data

\* tasksData.data.filter(task => task.completed)
RECURSIVE FilterCompleted(_)
FilterCompleted(data) ==
    IF data = <<>> THEN <<>>
    ELSE IF Head(data).completed
         THEN <<Head(data)>> \o FilterCompleted(Tail(data))
         ELSE FilterCompleted(Tail(data))

\* ------------------------------------------------------------ merge by gid
\* Map.prototype.set on an insertion-ordered map kept as a sequence of
\* records with pairwise distinct gid: an existing key keeps its position.
MapSet(m, t) ==
    IF \E i \in 1..Len(m) : m[i].gid = t.gid
    THEN [i \in 1..Len(m) |-> IF m[i].gid = t.gid THEN t ELSE m[i]]
    ELSE Append(m, t)

\* forEach(task => { if (task.gid) taskMap.set(task.gid, task) })
RECURSIVE MapSetAll(_, _)
MapSetAll(m, ts) ==
    IF ts = <<>> THEN m
    ELSE MapSetAll(IF Head(ts).gid # 0 THEN MapSet(m, Head(ts)) ELSE m, Tail(ts))

\* Array.from(taskMap.values()) after seeding the map with the existing
\* tasks and setting every incoming task.
MergeTasks(existingTasks, newTasks) == MapSetAll(MapSetAll(<<>>, existingTasks), newTasks)

\* ----------------------------------------------------------------- state
VARIABLES
    storedToken,      \* localStorage garden_tasks_asana_token
    snapshot,         \* localStorage garden_tasks_cached_tasks
    cursor,           \* localStorage garden_tasks_last_sync
    now,              \* Date.now()
    token,            \* App state: token
    tasks,            \* App state: tasks (the displayed list)
    loading,          \* App state: loading
    error,            \* App state: error ("" is null)
    autoRefreshing,   \* App state: autoRefreshing
    timer,            \* AsanaConnect's pending auto-connect timeout
    bg,               \* the autoRefreshTasks call in flight
    fg,               \* the foreground fetches in flight, oldest first
    calls,            \* page loads and fetch calls started so far
    ev                \* the last step taken, with what it worked on

vars == <<storedToken, snapshot, cursor, now, token, tasks, loading, error,
          autoRefreshing, timer, bg, fg, calls, ev>>

storage == <<storedToken, snapshot, cursor>>
react == <<token, tasks, loading, error, autoRefreshing>>

Absent == [kind |-> "absent"]
Cache(ts, stamp) == [kind |-> "valid", tasks |-> ts, timestamp |-> stamp]

\* ------------------------------------------------------------ taskStorage
getTasks == IF snapshot.kind = "valid" THEN snapshot.tasks ELSE <<>>
getLastSyncTimestamp == IF snapshot.kind = "valid" THEN Some(snapshot.timestamp) ELSE None
getLastSyncDate == cursor
\* A save that keeps the records persisted meanwhile by another call.
saveTasksMerging(ts) == Cache(MergeTasks(getTasks, ts), now)

\* localStorage.setItem(TASKS_STORAGE_KEY, {tasks, timestamp: Date.now()})
saveTasks(ts) == Cache(ts, now)
saveLastSyncDate(date) == Some(date)

\* A staleness test that already fires at the threshold.
isCacheStaleAtThreshold(timestamp) == now - timestamp >= FIVE_MINUTES_MS

\* now - timestamp > FIVE_MINUTES_MS
isCacheStale(timestamp) == now - timestamp > FIVE_MINUTES_MS

getThirtyDaysAgoISOString == now - THIRTY_DAYS
getOneYearAgoISOString == now - ONE_YEAR

\* ------------------------------------------------------- calls in flight
\* An async call between two awaits: where it waits (pc), which function it
\* is (kind), and the locals its closure holds; with them the time the call
\* was made (start) and the cached list that was removed to make it
\* (cleared).
IdleOp == [pc |-> "idle", kind |-> "none", token |-> "", existing |-> <<>>,
           since |-> 0, acc |-> <<>>, pages |-> 0, start |-> 0, cleared |-> <<>>]
StartOp(k, tok, existingTasks, since) ==
    [pc |-> "user", kind |-> k, token |-> tok, existing |-> existingTasks,
     since |-> since, acc |-> <<>>, pages |-> 0, start |-> now, cleared |-> <<>>]
DemoOp(k) == [IdleOp EXCEPT !.pc = "demo", !.kind = k, !.token = DEMO, !.start = now]

Remove(s, i) == SubSeq(s, 1, i - 1) \o SubSeq(s, i + 1, Len(s))

\* What the last step was: its name and how the remote request it answered
\* failed (if it did) and with which status; for a step that ended a fetch,
\* the lower bound the call had used and the time it was started; and, when
\* the fetch ended with records, the batch and the list the call had read
\* from the cache; and the identifiers a write removed from the persisted
\* list (lost).
Ev(what, failure, op, ended, batch) ==
    [what |-> what, failure |-> failure, batch |-> batch,
     existing |-> IF batch = <<>> THEN <<>> ELSE op.existing,
     cleared |-> IF ended THEN op.cleared ELSE <<>>,
     status |-> 0,
     lost |-> {},
     since |-> IF ended THEN op.since ELSE 0,
     start |-> IF ended THEN op.start ELSE 0]
Ev0(what) == Ev(what, "none", IdleOp, FALSE, <<>>)

\* ------------------------------------------------------ remote responses
\* An error message is kept as the set of the substrings the classifier of
\* fetchTasksForToken looks for that occur in it.
HasDigit5(n) == (n \div 100) % 10 = 5 \/ (n \div 10) % 10 = 5 \/ n % 10 = 5
StatusNeedles(s) ==
    (IF s = 401 THEN {"401"} ELSE {}) \cup (IF s = 403 THEN {"403"} ELSE {})
    \cup (IF s = 429 THEN {"429"} ELSE {}) \cup (IF HasDigit5(s) THEN {"5"} ELSE {})
Statuses == {401, 403, 429, 500, 404}
Bodies == {{}, {"5"}}
TransportMessages == {{"fetch"}}

\* `Asana API error: ${status} - ${errorText}`
HttpMessage(s, body) == StatusNeedles(s) \cup body

UserResponses ==
    {[kind |-> "ok", workspaces |-> w, msg |-> {}] : w \in BOOLEAN}
    \cup {[kind |-> "http", workspaces |-> FALSE, msg |-> HttpMessage(s, b),
            status |-> s] : s \in Statuses, b \in Bodies}
    \cup {[kind |-> "throw", workspaces |-> FALSE, msg |-> m] : m \in TransportMessages}

PageResponses ==
    {[kind |-> "ok", data |-> d, next |-> n, msg |-> {}] : d \in Pages, n \in BOOLEAN}
    \cup {[kind |-> "http", data |-> <<>>, next |-> FALSE, msg |-> {}]}
    \cup {[kind |-> "throw", data |-> <<>>, next |-> FALSE, msg |-> m] :
            m \in TransportMessages}

\* The if / else-if chain of the outer catch of fetchTasksForToken.
ClassifyError(msg) ==
    IF "401" \in msg THEN "auth"
    ELSE IF "403" \in msg THEN "denied"
    ELSE IF "429" \in msg THEN "rate"
    ELSE IF "5" \in msg THEN "server"
    ELSE IF "fetch" \in msg \/ "network" \in msg THEN "network"
    ELSE IF "Timestamp must be in ISO-8601" \in msg THEN "date"
    ELSE IF "Must specify exactly one of" \in msg THEN "api"
    ELSE "failed"

Init ==
    /\ storedToken = None
    /\ snapshot = Absent
    /\ cursor = None
    /\ now = 1
    /\ token = None
    /\ tasks = <<>>
    /\ loading = FALSE
    /\ error = ""
    /\ autoRefreshing = FALSE
    /\ timer = None
    /\ bg = IdleOp
    /\ fg = <<>>
    /\ calls = 0
    /\ ev = Ev0("init")

\* The clock moves between any two steps: first by the length of the
\* staleness window, then by single seconds.
Tick ==
    /\ \E d \in {1, FIVE_MINUTES_MS} :
          /\ now + d <= MaxNow
          /\ d = 1 <=> now > FIVE_MINUTES_MS
          /\ now' = now + d
    /\ ev' = Ev0("tick")
    /\ UNCHANGED <<storage, react, timer, bg, fg, calls>>

\* ----------------------------------------------------------- user events
\* A clearTasks that removes the task list alone.
clearTasksOnly ==
    /\ snapshot' = Absent
    /\ cursor' = cursor

\* taskStorage.clearTasks: removes the task key and the last-sync key.
clearTasks ==
    /\ snapshot' = Absent
    /\ cursor' = None

\* A token effect that fetches whatever is displayed.
tokenEffectAlwaysFetches(tok, shown) == TRUE

\* The test of the token effect of App, run when the token state changed to
\* tok while the list shown is displayed: tasks.length === 0 || token === 'demo'.
tokenEffectFetches(tok, shown) == Len(shown) = 0 \/ tok = DEMO

\* handleAsanaConnect(newToken), followed by the token effect of App when the
\* token state changed: fetchTasksForToken up to its first await.  The code
\* starts the fetch whatever is in flight; cap bounds the calls in flight.
handleAsanaConnectCap(newToken, cap) ==
    LET changed == token # Some(newToken)
        fetch == changed /\ tokenEffectFetches(newToken, tasks)
    IN  /\ fetch => Len(fg) < cap /\ calls < MaxCalls
        /\ calls' = IF fetch THEN calls + 1 ELSE calls
        /\ token' = Some(newToken)
        /\ storedToken' = IF newToken # DEMO THEN Some(newToken) ELSE storedToken
        /\ clearTasks
        /\ error' = ""
        /\ loading' = IF fetch THEN TRUE ELSE loading
        /\ fg' = IF ~fetch THEN fg
                 ELSE IF newToken = DEMO THEN Append(fg, DemoOp("token"))
                 ELSE Append(fg, StartOp("token", newToken, <<>>, 0))
        /\ UNCHANGED <<tasks, autoRefreshing, bg, now>>

handleAsanaConnect(newToken) == handleAsanaConnectCap(newToken, MaxFg)

\* A page load: the mount effect of AsanaConnect (a child's effects run
\* first), the mount effect of App with autoRefreshTasks up to its first
\* await, and the token effect that follows the state change.
Reload ==
    LET savedToken == storedToken
        cachedTasks == getTasks
        haveCache == IsSome(savedToken) /\ Len(cachedTasks) > 0
        cacheTimestamp == getLastSyncTimestamp
        stale == /\ haveCache
                 /\ IsSome(cacheTimestamp) /\ Val(cacheTimestamp) # 0
                 /\ isCacheStale(Val(cacheTimestamp))
        lastSyncDate == getLastSyncDate
        refresh == stale /\ IsSome(lastSyncDate)
        shown == IF haveCache THEN cachedTasks ELSE <<>>
        fetch == IsSome(savedToken) /\ tokenEffectFetches(Val(savedToken), shown)
    IN  /\ calls < MaxCalls
        /\ calls' = calls + 1
        /\ timer' = savedToken
        /\ token' = savedToken
        /\ tasks' = shown
        /\ loading' = fetch
        /\ error' = ""
        /\ autoRefreshing' = refresh
        /\ bg' = IF refresh
                 THEN StartOp("auto", Val(savedToken), cachedTasks, Val(lastSyncDate))
                 ELSE IdleOp
        /\ fg' = IF fetch THEN <<StartOp("token", Val(savedToken), cachedTasks, 0)>>
                 ELSE <<>>
        /\ ev' = Ev0(IF stale THEN "loadStale"
                     ELSE IF haveCache THEN "loadFresh"
                     ELSE IF fetch THEN "loadEmpty" ELSE "loadNoToken")
        /\ UNCHANGED <<storage, now>>

\* AsanaConnect.handleConnect: the form is on screen while token is null.
handleConnect ==
    /\ token = None
    /\ \E input \in Tokens \cup {""} :
          handleAsanaConnect(IF input = "" THEN DEMO ELSE input)
    /\ ev' = Ev0("connect")
    /\ UNCHANGED timer

handleDemoConnect ==
    /\ token = None
    /\ handleAsanaConnect(DEMO)
    /\ ev' = Ev0("connect")
    /\ UNCHANGED timer

\* The timeout AsanaConnect set on mount when it found a saved token.
AutoConnect ==
    /\ IsSome(timer)
    /\ handleAsanaConnect(Val(timer))
    /\ timer' = None
    /\ ev' = Ev0("autoConnect")

handleDisconnect ==
    /\ storedToken' = None
    /\ clearTasks
    /\ token' = None
    /\ tasks' = <<>>
    /\ ev' = Ev0("disconnect")
    /\ UNCHANGED <<loading, error, autoRefreshing, timer, bg, fg, now, calls>>

\* fetchAllHistoricalTasks, with fetchTasksWithLookback up to its first await.
\* The button is there whenever a token is set; cap bounds the calls in flight.
fetchAllHistoricalTasksCap(cap) ==
    /\ IsSome(token)
    /\ Len(fg) < cap /\ calls < MaxCalls
    /\ calls' = calls + 1
    /\ clearTasks
    /\ loading' = TRUE
    /\ error' = ""
    /\ fg' = IF Val(token) = DEMO THEN Append(fg, DemoOp("lookback"))
             ELSE Append(fg, [StartOp("lookback", Val(token), <<>>, getOneYearAgoISOString)
                               EXCEPT !.cleared = getTasks])
    /\ ev' = Ev0("fetchAll")
    /\ UNCHANGED <<storedToken, token, tasks, autoRefreshing, timer, bg, now>>

fetchAllHistoricalTasks == fetchAllHistoricalTasksCap(MaxFg)

\* ------------------------------------------------- pagination-following
\* One response to a page request of a `while (hasMore)` loop.  The loop goes
\* on when the response is OK and carries next_page.offset; it ends with the
\* records gathered so far on a non-OK response (break) and with the records
\* of this page added when no next page is announced.
PageAllowed(op, r) == r.next => op.pages < MaxPages
PageGoesOn(r) == r.kind = "ok" /\ r.next
PageRecords(op, r) ==
    IF r.kind = "ok" THEN op.acc \o FilterCompleted(r.data) ELSE op.acc
NextPage(op, r) == [op EXCEPT !.acc = PageRecords(op, r), !.pages = @ + 1]
PageFailure(r) ==
    IF r.kind = "http" THEN "page-http" ELSE IF r.kind = "throw" THEN "page-throw" ELSE "none"
StatusOf(r) == IF r.kind = "http" THEN r.status ELSE 0
UserFailure(r) ==
    IF r.kind = "http" THEN "user-http"
    ELSE IF r.kind = "throw" THEN "user-throw"
    ELSE IF ~r.workspaces THEN "no-workspace" ELSE "none"

\* What a continuation does before it yields again or returns: the call's
\* next state (op) or that it returned (ended), the list it displays
\* (setTasks), the list it persists together with the cursor (save), and
\* the error it shows (setError).
Out(what, failure, op, ended, setTasksTo, save, setErrorTo, batch) ==
    [what |-> what, failure |-> failure, op |-> op, ended |-> ended,
     setTasks |-> setTasksTo, save |-> save, setError |-> setErrorTo, batch |-> batch,
     status |-> 0]
Goes(what, op) == Out(what, "none", op, FALSE, None, None, None, <<>>)

\* ------------------------------------------------------ autoRefreshTasks
\* After `await fetchUserData(accessToken)`.
autoRefreshUser(op, r) ==
    IF r.kind = "ok" /\ r.workspaces
    THEN Goes("autoPageRequest", [op EXCEPT !.pc = "page", !.pages = 1])
    ELSE Out("autoSkipped", UserFailure(r), op, TRUE, None, None, None, <<>>)

\* A test that takes every answer for new records.
hasNewTasksAlways(newTasks) == TRUE

\* if (newTasks.length > 0)
hasNewTasks(newTasks) == Len(newTasks) > 0

\* After a page of `await fetchAssignedTasks(...)`, through the merge.
autoRefreshPage(op, r) ==
    IF r.kind = "throw"
    THEN Out("autoThrew", PageFailure(r), op, TRUE, None, None, None, <<>>)
    ELSE IF PageGoesOn(r) THEN Goes("autoPageRequest", NextPage(op, r))
    ELSE LET newTasks == PageRecords(op, r)
             mergedTasks == MergeTasks(op.existing, newTasks)
         IN  IF hasNewTasks(newTasks)
             THEN Out("autoMerged", PageFailure(r), op, TRUE,
                      Some(mergedTasks), Some(mergedTasks), None, newTasks)
             ELSE Out("autoNoNew", PageFailure(r), op, TRUE, None, None, None, newTasks)

\* The identifiers persisted now that are not in the list about to be saved.
Overwritten(save) ==
    IF IsSome(save)
    THEN {getTasks[i].gid : i \in DOMAIN getTasks}
            \ ({Val(save)[i].gid : i \in DOMAIN Val(save)} \cup {0})
    ELSE {}

\* tasksSaved, dateSaved: whether localStorage.setItem went through in
\* saveTasks and in saveLastSyncDate (each catches its own exception).
ApplyAutoWrites(o, tasksSaved, dateSaved) ==
    /\ tasks' = IF IsSome(o.setTasks) THEN Val(o.setTasks) ELSE tasks
    /\ snapshot' = IF IsSome(o.save) /\ tasksSaved THEN saveTasks(Val(o.save)) ELSE snapshot
    /\ cursor' = IF IsSome(o.save) /\ dateSaved THEN saveLastSyncDate(now) ELSE cursor
    /\ autoRefreshing' = IF o.ended THEN FALSE ELSE autoRefreshing
    /\ bg' = IF o.ended THEN IdleOp ELSE o.op
    /\ ev' = [Ev(o.what, o.failure, o.op, o.ended, o.batch)
              EXCEPT !.lost = Overwritten(o.save)]
    /\ UNCHANGED <<storedToken, token, loading, error, timer, fg, now, calls>>

ApplyAuto(o) == ApplyAutoWrites(o, TRUE, TRUE)

AutoRefreshUserResponse ==
    /\ bg.pc = "user"
    /\ \E r \in UserResponses : ApplyAuto(autoRefreshUser(bg, r))

AutoRefreshPageResponse ==
    /\ bg.pc = "page"
    /\ \E r \in PageResponses :
          /\ PageAllowed(bg, r)
          /\ ApplyAuto(autoRefreshPage(bg, r))

\* ---------------------------------------------------- fetchTasksForToken
\* A lower bound that ignores the stored cursor.
completedSinceDefaultOnly == getThirtyDaysAgoISOString

\* const completedSince = lastSyncDate || thirtyDaysAgo
completedSince ==
    LET lastSyncDate == getLastSyncDate
    IN  IF IsSome(lastSyncDate) THEN Val(lastSyncDate) ELSE getThirtyDaysAgoISOString

\* After `await fetch(userEndpoint)`: the lower bound is read here.
fetchTasksForTokenUser(op, r) ==
    IF r.kind = "ok" /\ r.workspaces
    THEN Goes("tokenPageRequest",
              [op EXCEPT !.pc = "page", !.since = completedSince, !.pages = 1])
    ELSE [Out("tokenFailed", UserFailure(r), op, TRUE,
              Some(generateMockTasks(ErrorMockCount)), None,
              Some(ClassifyError(r.msg)), <<>>)
          EXCEPT !.status = StatusOf(r)]

\* After a page of one of its three loops: the primary query (pc "page"),
\* assignee=me (pc "me"), assignee=me without a date filter (pc "all").
fetchTasksForTokenPage(op, r) ==
    IF r.kind = "throw"
    THEN Out("tokenThrew", PageFailure(r), op, TRUE,
             Some(generateMockTasks(ErrorMockCount)), None, None, <<>>)
    ELSE IF PageGoesOn(r) THEN Goes("tokenPageRequest", NextPage(op, r))
    ELSE LET got == PageRecords(op, r)
             mergedTasks == MergeTasks(op.existing, got)
             again(pc) == [op EXCEPT !.pc = pc, !.acc = <<>>, !.pages = 1]
         IN  IF op.pc = "page"
             THEN IF Len(got) > 0
                  THEN Out("tokenMerged", PageFailure(r), op, TRUE,
                           Some(mergedTasks), Some(mergedTasks), None, got)
                  ELSE IF Len(op.existing) > 0
                  THEN Out("tokenNoNew", PageFailure(r), op, TRUE,
                           Some(op.existing), None, None, got)
                  ELSE Goes("tokenFallback", again("me"))
             ELSE IF Len(got) > 0
             THEN Out("tokenFallbackShown", PageFailure(r), op, TRUE,
                      Some(got), None, None, got)
             ELSE IF op.pc = "me" THEN Goes("tokenFallback", again("all"))
             ELSE Out("tokenNothing", PageFailure(r), op, TRUE, None, None, None, got)

\* ------------------------------------------------ fetchTasksWithLookback
fetchTasksWithLookbackUser(op, r) ==
    IF r.kind = "ok" /\ r.workspaces
    THEN Goes("lookbackPageRequest", [op EXCEPT !.pc = "page", !.pages = 1])
    ELSE [Out("lookbackFailed", UserFailure(r), op, TRUE, None, None,
              Some(IF r.kind = "ok" THEN "noworkspace" ELSE "connect"), <<>>)
          EXCEPT !.status = StatusOf(r)]

fetchTasksWithLookbackPage(op, r) ==
    IF r.kind = "throw"
    THEN Out("lookbackThrew", PageFailure(r), op, TRUE, None, None, Some("fetch"), <<>>)
    ELSE IF PageGoesOn(r) THEN Goes("lookbackPageRequest", NextPage(op, r))
    ELSE LET allTasks == PageRecords(op, r)
         IN  IF Len(allTasks) > 0
             THEN Out("lookbackSaved", PageFailure(r), op, TRUE,
                      Some(allTasks), Some(allTasks), None, allTasks)
             ELSE Out("lookbackEmpty", PageFailure(r), op, TRUE,
                      Some(<<>>), None, None, allTasks)

\* A demo timer callback that leaves the call pending and loading set.
demoTimeoutKeepsLoading(op) ==
    Out("demoShown", "none", op, FALSE,
        Some(generateMockTasks(DemoMockCount)), None, None, <<>>)

\* The setTimeout callback of demo mode, in either foreground function.
demoTimeout(op) ==
    Out("demoShown", "none", op, TRUE,
        Some(generateMockTasks(DemoMockCount)), None, None, <<>>)

ApplyFgWrites(i, o, tasksSaved, dateSaved) ==
    /\ tasks' = IF IsSome(o.setTasks) THEN Val(o.setTasks) ELSE tasks
    /\ snapshot' = IF IsSome(o.save) /\ tasksSaved THEN saveTasks(Val(o.save)) ELSE snapshot
    /\ cursor' = IF IsSome(o.save) /\ dateSaved THEN saveLastSyncDate(now) ELSE cursor
    /\ error' = IF IsSome(o.setError) THEN Val(o.setError) ELSE error
    /\ loading' = IF o.ended THEN FALSE ELSE loading
    /\ fg' = IF o.ended THEN Remove(fg, i) ELSE [fg EXCEPT ![i] = o.op]
    /\ ev' = [Ev(o.what, o.failure, o.op, o.ended, o.batch)
              EXCEPT !.status = o.status, !.lost = Overwritten(o.save)]
    /\ UNCHANGED <<storedToken, token, autoRefreshing, timer, bg, now, calls>>

ApplyFg(i, o) == ApplyFgWrites(i, o, TRUE, TRUE)

ForegroundUserResponse ==
    \E i \in 1..Len(fg) :
        /\ fg[i].pc = "user"
        /\ \E r \in UserResponses :
              ApplyFg(i, IF fg[i].kind = "token" THEN fetchTasksForTokenUser(fg[i], r)
                         ELSE fetchTasksWithLookbackUser(fg[i], r))
    
ForegroundPageResponse ==
    \E i \in 1..Len(fg) :
        /\ fg[i].pc \in {"page", "me", "all"}
        /\ \E r \in PageResponses :
              /\ PageAllowed(fg[i], r)
              /\ ApplyFg(i, IF fg[i].kind = "token" THEN fetchTasksForTokenPage(fg[i], r)
                            ELSE fetchTasksWithLookbackPage(fg[i], r))
    
DemoTimeout ==
    /\ \E i \in 1..Len(fg) : fg[i].pc = "demo" /\ ApplyFg(i, demoTimeout(fg[i]))

Next ==
    \/ Tick
    \/ Reload
    \/ handleConnect
    \/ handleDemoConnect
    \/ AutoConnect
    \/ handleDisconnect
    \/ fetchAllHistoricalTasks
    \/ AutoRefreshUserResponse
    \/ AutoRefreshPageResponse
    \/ ForegroundUserResponse
    \/ ForegroundPageResponse
    \/ DemoTimeout

Spec == Init /\ [][Next]_vars

\* Every request sent is answered or rejected in the end, and a timer that
\* was set fires: the continuation of a call in flight is not postponed
\* forever.  User events and the clock are under no such obligation.
Answered ==
    /\ WF_vars(AutoRefreshUserResponse)
    /\ WF_vars(AutoRefreshPageResponse)
    /\ WF_vars(ForegroundUserResponse)
    /\ WF_vars(ForegroundPageResponse)
    /\ WF_vars(DemoTimeout)

\* The session of one user who connects, reloads the page and asks for the
\* whole history, with every fetch that follows.
NextLive ==
    \/ Tick
    \/ Reload
    \/ handleConnect
    \/ fetchAllHistoricalTasks
    \/ AutoRefreshUserResponse
    \/ AutoRefreshPageResponse
    \/ ForegroundUserResponse
    \/ ForegroundPageResponse
    \/ DemoTimeout

SpecLive == Init /\ [][NextLive]_vars /\ Answered

\* ------------------------------------------- user events during a fetch
\* The session with the user events allowed while a foreground fetch waits
\* for its answer, as the code allows them: up to MaxRacingFg calls in
\* flight.  The clock, page loads and the background refresh stay out.
ConnectWhileFetching ==
    /\ token = None
    /\ \E input \in Tokens \cup {""} :
          handleAsanaConnectCap(IF input = "" THEN DEMO ELSE input, MaxRacingFg)
    /\ ev' = Ev0("connect")
    /\ UNCHANGED timer

FetchAllWhileFetching == fetchAllHistoricalTasksCap(MaxRacingFg)

NextRacing ==
    \/ ConnectWhileFetching
    \/ FetchAllWhileFetching
    \/ handleDisconnect
    \/ ForegroundUserResponse
    \/ ForegroundPageResponse
    \/ DemoTimeout

SpecRacing == Init /\ [][NextRacing]_vars

\* ------------------------------------------- writes that do not go through
\* The session where localStorage.setItem may raise (quota exceeded, storage
\* disabled) in saveTasks and in saveLastSyncDate: connects, page loads and
\* the fetches they start.
WritesAllowed(o, tasksSaved, dateSaved) == IsSome(o.save) \/ (tasksSaved /\ dateSaved)

AutoRefreshPageResponseWrites ==
    /\ bg.pc = "page"
    /\ \E r \in PageResponses, tasksSaved, dateSaved \in BOOLEAN :
          /\ PageAllowed(bg, r)
          /\ WritesAllowed(autoRefreshPage(bg, r), tasksSaved, dateSaved)
          /\ ApplyAutoWrites(autoRefreshPage(bg, r), tasksSaved, dateSaved)

ForegroundPageResponseWrites ==
    \E i \in 1..Len(fg) :
        /\ fg[i].pc \in {"page", "me", "all"}
        /\ \E r \in PageResponses, tasksSaved, dateSaved \in BOOLEAN :
              LET o == IF fg[i].kind = "token" THEN fetchTasksForTokenPage(fg[i], r)
                       ELSE fetchTasksWithLookbackPage(fg[i], r)
              IN  /\ PageAllowed(fg[i], r)
                  /\ WritesAllowed(o, tasksSaved, dateSaved)
                  /\ ApplyFgWrites(i, o, tasksSaved, dateSaved)

NextWrites ==
    \/ Tick
    \/ Reload
    \/ handleConnect
    \/ AutoRefreshUserResponse
    \/ AutoRefreshPageResponseWrites
    \/ ForegroundUserResponse
    \/ ForegroundPageResponseWrites
    \/ DemoTimeout

SpecWrites == Init /\ [][NextWrites]_vars

\* ------------------------------------------- fetchAssignedTasks by itself
\* One call of fetchAssignedTasks against a listing whose answers are fixed
\* beforehand: the answer to the n-th request is chain[n].  Every answer is
\* a response (OK or not); the last one announces no further page.
PageChainResponses == {r \in PageResponses : r.kind # "throw"}
PageChains ==
    {c \in UNION {[1..n -> PageChainResponses] : n \in 1..MaxChain} :
        ~PageGoesOn(c[Len(c)])}

\* The requests sent so far (by position in the chain) and what the call
\* returned.
PagesEv(what, chain, requested, returned) ==
    [what |-> what, chain |-> chain, requested |-> requested, returned |-> returned]

InitPages ==
    /\ storedToken = None
    /\ snapshot = Absent
    /\ cursor = None
    /\ now = 1
    /\ token = None
    /\ tasks = <<>>
    /\ loading = FALSE
    /\ error = ""
    /\ autoRefreshing = FALSE
    /\ timer = None
    /\ bg = IdleOp
    /\ fg = <<>>
    /\ calls = 0
    /\ \E c \in PageChains : ev = PagesEv("init", c, <<>>, <<>>)

\* The call, up to the first `await fetch(tasksEndpoint)`.
FetchAssignedTasksCall ==
    /\ ev.what = "init"
    /\ bg' = [StartOp("pages", "tokA", <<>>, 0) EXCEPT !.pc = "page", !.pages = 1]
    /\ ev' = PagesEv("requested", ev.chain, <<1>>, <<>>)
    /\ UNCHANGED <<storage, react, timer, fg, now, calls>>

\* One iteration of `while (hasMore)` after its response arrived.
FetchAssignedTasksPage ==
    /\ bg.pc = "page"
    /\ LET r == ev.chain[bg.pages]
       IN  IF PageGoesOn(r)
           THEN /\ bg' = NextPage(bg, r)
                /\ ev' = PagesEv("requested", ev.chain,
                                  Append(ev.requested, bg.pages + 1), <<>>)
           ELSE /\ bg' = IdleOp
                /\ ev' = PagesEv("returned", ev.chain, ev.requested, PageRecords(bg, r))
    /\ UNCHANGED <<storage, react, timer, fg, now, calls>>

NextPages ==
    \/ FetchAssignedTasksCall
    \/ FetchAssignedTasksPage

SpecPages == InitPages /\ [][NextPages]_vars

\* ------------------------------------------- the stores on any content
\* What localStorage may hold under the task key when the page is opened,
\* written by this program or not: nothing, the empty string, text that
\* JSON.parse rejects, or a JSON value.  A value is tagged with its type; an
\* object is given by its `tasks` and `timestamp` properties.
JUndefined == [t |-> "undefined"]
JNull == [t |-> "null"]
JNum == [t |-> "num"]
JStr == [t |-> "str"]
JArr(items) == [t |-> "arr", items |-> items]
JObj(tasksProp, timestampProp) == [t |-> "obj", tasks |-> tasksProp, timestamp |-> timestampProp]
Thrown == [t |-> "throw"]

TasksProps ==
    {JUndefined, JNull, JNum, JStr, JArr(<<>>), JArr(<<RemoteTask(1, 1, TRUE)>>)}
TimestampProps == {JUndefined, JNum, JStr}
JsonValues ==
    {JNull, JNum, JStr, JArr(<<>>)}
    \cup {JObj(a, b) : a \in TasksProps, b \in TimestampProps}
StoredItems ==
    {Absent, [kind |-> "empty"], [kind |-> "unparsable"], Cache(<<>>, 1),
     Cache(<<RemoteTask(1, 1, TRUE)>>, 1)}
    \cup {[kind |-> "json", value |-> v] : v \in JsonValues}

\* JSON.parse(cacheJson)
JsonParse(item) ==
    IF item.kind = "unparsable" THEN Thrown
    ELSE IF item.kind = "valid" THEN JObj(JArr(item.tasks), JNum)
    ELSE item.value

\* v.name for name in tasks, timestamp: a TypeError on null and undefined,
\* undefined on a value without the property.
Prop(v, name) ==
    IF v.t \in {"null", "undefined"} THEN Thrown
    ELSE IF v.t = "obj" THEN (IF name = "tasks" THEN v.tasks ELSE v.timestamp)
    ELSE JUndefined

\* try { ... } catch (e) { return fallback }
Catch(r, fallback) == IF r.t = "throw" THEN fallback ELSE r

\* taskStorage.getTasks on the stored item; throws: localStorage.getItem
\* raises.
getTasksFrom(item, throws) ==
    Catch(IF throws THEN Thrown
          ELSE IF item.kind \in {"absent", "empty"} THEN JArr(<<>>)
          ELSE LET cache == JsonParse(item)
               IN  IF cache.t = "throw" THEN Thrown
                   ELSE IF Prop(Prop(cache, "tasks"), "length").t = "throw" THEN Thrown
                   ELSE Prop(cache, "tasks"),
          JArr(<<>>))

\* taskStorage.getLastSyncTimestamp on the stored item.
getLastSyncTimestampFrom(item, throws) ==
    Catch(IF throws THEN Thrown
          ELSE IF item.kind \in {"absent", "empty"} THEN JNull
          ELSE LET cache == JsonParse(item)
               IN  IF cache.t = "throw" THEN Thrown ELSE Prop(cache, "timestamp"),
          JNull)

\* getLastSyncDate, getToken: the stored string or null; hasToken: whether
\* a non-empty string is stored.
getItemFrom(stored, throws) ==
    Catch(IF throws THEN Thrown ELSE IF IsSome(stored) THEN JStr ELSE JNull, JNull)
hasTokenFrom(stored, throws) ==
    Catch(IF throws THEN Thrown ELSE [t |-> "bool", v |-> IsSome(stored)],
          [t |-> "bool", v |-> FALSE])

\* What a store operation gave its caller.
StoreEv(what, throws, result) == [what |-> what, throws |-> throws, result |-> result]

InitStorage ==
    /\ storedToken \in {None} \cup {Some(tok) : tok \in Tokens}
    /\ snapshot \in StoredItems
    /\ cursor \in {None, Some(1)}
    /\ now = 1
    /\ token = None
    /\ tasks = <<>>
    /\ loading = FALSE
    /\ error = ""
    /\ autoRefreshing = FALSE
    /\ timer = None
    /\ bg = IdleOp
    /\ fg = <<>>
    /\ calls = 0
    /\ ev = StoreEv("init", FALSE, JUndefined)

StoreGetTasks ==
    /\ \E throws \in BOOLEAN :
          ev' = StoreEv("getTasks", throws, getTasksFrom(snapshot, throws))
    /\ UNCHANGED <<storage, react, timer, bg, fg, now, calls>>

StoreGetLastSyncTimestamp ==
    /\ \E throws \in BOOLEAN :
          ev' = StoreEv("getLastSyncTimestamp", throws,
                        getLastSyncTimestampFrom(snapshot, throws))
    /\ UNCHANGED <<storage, react, timer, bg, fg, now, calls>>

StoreGetLastSyncDate ==
    /\ \E throws \in BOOLEAN :
          ev' = StoreEv("getLastSyncDate", throws, getItemFrom(cursor, throws))
    /\ UNCHANGED <<storage, react, timer, bg, fg, now, calls>>

StoreGetToken ==
    /\ \E throws \in BOOLEAN :
          ev' = StoreEv("getToken", throws, getItemFrom(storedToken, throws))
    /\ UNCHANGED <<storage, react, timer, bg, fg, now, calls>>

StoreHasToken ==
    /\ \E throws \in BOOLEAN :
          ev' = StoreEv("hasToken", throws, hasTokenFrom(storedToken, throws))
    /\ UNCHANGED <<storage, react, timer, bg, fg, now, calls>>

\* saveTasks, saveLastSyncDate, clearTasks: setItem / removeItem raising is
\* caught and leaves the keys as they were.
StoreSaveTasks ==
    /\ \E throws \in BOOLEAN, ts \in Pages :
          /\ snapshot' = IF throws THEN snapshot ELSE saveTasks(ts)
          /\ ev' = StoreEv("saveTasks", throws, JUndefined)
    /\ UNCHANGED <<storedToken, cursor, react, timer, bg, fg, now, calls>>

StoreSaveLastSyncDate ==
    /\ \E throws \in BOOLEAN :
          /\ cursor' = IF throws THEN cursor ELSE saveLastSyncDate(now)
          /\ ev' = StoreEv("saveLastSyncDate", throws, JUndefined)
    /\ UNCHANGED <<storedToken, snapshot, react, timer, bg, fg, now, calls>>

StoreClearTasks ==
    /\ \E throws \in BOOLEAN :
          /\ IF throws THEN UNCHANGED <<snapshot, cursor>> ELSE clearTasks
          /\ ev' = StoreEv("clearTasks", throws, JUndefined)
    /\ UNCHANGED <<storedToken, react, timer, bg, fg, now, calls>>

NextStorage ==
    \/ StoreGetTasks
    \/ StoreGetLastSyncTimestamp
    \/ StoreGetLastSyncDate
    \/ StoreGetToken
    \/ StoreHasToken
    \/ StoreSaveTasks
    \/ StoreSaveLastSyncDate
    \/ StoreClearTasks

SpecStorage == InitStorage /\ [][NextStorage]_vars

\* ------------------------------------------------------------ properties
Range(s) == {s[i] : i \in DOMAIN s}
Gids(s) == {s[i].gid : i \in DOMAIN s} \ {0}
HasDistinctGids(s) ==
    \A i, j \in DOMAIN s : s[i].gid # 0 /\ (i # j => s[i].gid # s[j].gid)

LoadEvents == {"loadStale", "loadFresh", "loadEmpty", "loadNoToken"}
MergeEvents == {"autoMerged", "tokenMerged"}
CursorEvents == {"autoMerged", "tokenMerged", "lookbackSaved"}
AutoEndEvents == {"autoSkipped", "autoThrew", "autoMerged", "autoNoNew"}
AutoDoneEvents == {"autoMerged", "autoNoNew"}
TokenDoneEvents == {"tokenMerged", "tokenNoNew", "tokenFallbackShown", "tokenNothing"}
LookbackDoneEvents == {"lookbackSaved", "lookbackEmpty"}

\* C1: when autoRefreshTasks or fetchTasksForToken has merged a batch into
\* the list it read from the cache, the list persisted and displayed holds
\* exactly one record for every gid of either, the incoming record where the
\* batch has the gid and the cached one otherwise; and when every record of
\* the batch is already cached, the list has the size and the records it
\* had before.
C1_MergeByIdentifier ==
    ev.what \in MergeEvents =>
        LET cached == ev.existing
            incoming == ev.batch
            merged == getTasks
        IN  /\ tasks = merged
            /\ \A g \in Gids(cached) \cup Gids(incoming) :
                  Cardinality({i \in DOMAIN merged : merged[i].gid = g}) = 1
            /\ \A i \in DOMAIN merged :
                  /\ merged[i].gid \in Gids(cached) \cup Gids(incoming)
                  /\ IF merged[i].gid \in Gids(incoming)
                     THEN merged[i] \in Range(incoming)
                     ELSE merged[i] \in Range(cached)
            /\ Range(incoming) \subseteq Range(cached) =>
                  Len(merged) = Len(cached) /\ Range(merged) = Range(cached)

\* C2: when a merge took a batch of M records whose gids are pairwise
\* distinct and none of which is in the cached list of N records, the list
\* persisted and the list displayed have N + M records.
C2_NewRecordAddition ==
    ( /\ ev.what \in MergeEvents
      /\ HasDistinctGids(ev.batch)
      /\ Gids(ev.batch) \cap Gids(ev.existing) = {} ) =>
        /\ Len(getTasks) = Len(ev.existing) + Len(ev.batch)
        /\ Len(tasks) = Len(ev.existing) + Len(ev.batch)

\* C3: a step that ends autoRefreshTasks on a failed request (identity lookup
\* rejected, a page answered non-OK, a transport exception) leaves the
\* snapshot, the cursor, the displayed list and the error as they were.
C3_BackgroundFailureFrame ==
    [][ (ev'.what \in AutoEndEvents /\ ev'.failure # "none") =>
            /\ snapshot' = snapshot
            /\ cursor' = cursor
            /\ tasks' = tasks
            /\ error' = error ]_vars

\* C4: when fetchTasksWithLookback, called by fetchAllHistoricalTasks, ends
\* without a failed request with K records of pairwise distinct gids, the
\* snapshot and the displayed list hold exactly those K records, and its
\* lower bound was one year before its start.
C4_FullHistoryReset ==
    ( /\ ev.what \in LookbackDoneEvents
      /\ ev.failure = "none"
      /\ HasDistinctGids(ev.batch) ) =>
        /\ getTasks = ev.batch
        /\ tasks = ev.batch
        /\ ev.since = ev.start - ONE_YEAR

\* C5: when a fetch has advanced the cursor, the cursor is the time at which
\* that fetch was started.
C5_CursorIsFetchStart ==
    ev.what \in CursorEvents => cursor = Some(ev.start)

\* C6: when fetchTasksForToken or fetchTasksWithLookback has ended without a
\* failed request and without an error, whatever the number of records, a
\* cursor is stored and lies within the time of that fetch.
C6_CursorAfterForegroundFetch ==
    (ev.what \in TokenDoneEvents \cup LookbackDoneEvents /\ ev.failure = "none") =>
        /\ IsSome(cursor)
        /\ Val(cursor) >= ev.start
        /\ Val(cursor) <= now

\* C7: when any fetch has ended without a failed request, a cursor is stored
\* and is not below the lower bound that fetch used.
C7_CursorMonotonicity ==
    ( /\ ev.what \in AutoDoneEvents \cup TokenDoneEvents \cup LookbackDoneEvents
      /\ ev.failure = "none" ) =>
        IsSome(cursor) /\ Val(cursor) >= ev.since

\* C8: after a page load that found a saved token and a non-empty snapshot,
\* autoRefreshTasks is in flight exactly when the snapshot is more than
\* five minutes old; at five minutes exactly nothing is started.
C8_StalenessGate ==
    (ev.what \in LoadEvents /\ IsSome(storedToken) /\ Len(getTasks) > 0) =>
        ( (bg.pc = "user" /\ autoRefreshing)
            <=> now - snapshot.timestamp > FIVE_MINUTES_MS )

C8_LoadedAtThreshold ==
    /\ ev.what \in LoadEvents
    /\ IsSome(storedToken)
    /\ Len(getTasks) > 0
    /\ now - snapshot.timestamp = FIVE_MINUTES_MS
    /\ bg = IdleOp
    /\ ~autoRefreshing

C10_SnapshotCursorLifetime ==
    [][ ( \/ (snapshot # Absent /\ snapshot' = Absent)
          \/ (cursor # None /\ cursor' = None) ) =>
            \/ ev'.what \in {"disconnect", "fetchAll"}
            \/ (ev'.what \in {"connect", "autoConnect"} /\ storedToken' # storedToken) ]_vars

\* C11: a page load that finds a saved token, a snapshot of n tasks older
\* than five minutes and cursor T0 displays the n tasks and has one
\* autoRefreshTasks in flight with lower bound T0; when that call ends with
\* m records of new, pairwise distinct gids, snapshot and displayed list
\* hold n + m records and the cursor lies after T0; and the auto-connect of
\* that page load leaves what the refresh has just written in place.
C11_StaleBootstrap ==
    [][ /\ ( /\ ev'.what \in LoadEvents
             /\ IsSome(storedToken)
             /\ Len(getTasks) > 0
             /\ now - snapshot.timestamp > FIVE_MINUTES_MS ) =>
                /\ tasks' = getTasks
                /\ bg'.pc = "user"
                /\ bg'.existing = getTasks
                /\ cursor # None
                /\ bg'.since = Val(cursor)
        /\ ( /\ ev'.what = "autoMerged"
             /\ ev'.failure = "none"
             /\ HasDistinctGids(ev'.batch)
             /\ Gids(ev'.batch) \cap Gids(ev'.existing) = {} ) =>
                /\ Len(snapshot'.tasks) = Len(ev'.existing) + Len(ev'.batch)
                /\ Len(tasks') = Len(ev'.existing) + Len(ev'.batch)
                /\ cursor' # None
                /\ Val(cursor') > ev'.since
        /\ (ev.what = "autoMerged" /\ ev'.what = "autoConnect") =>
                /\ snapshot' = snapshot
                /\ cursor' = cursor ]_vars

\* C12: when fetchTasksForToken resumes after the identity lookup, the lower
\* bound of its task queries is the stored cursor if one is stored and
\* thirty days before now otherwise; the queries with a date filter that
\* follow keep that bound.
C12_ForegroundLowerBound ==
    [][ \A i \in 1..Len(fg) :
          (Len(fg') = Len(fg) /\ fg[i].kind = "token") =>
             /\ (fg[i].pc = "user" /\ fg'[i].pc = "page") =>
                   fg'[i].since = IF cursor # None THEN Val(cursor)
                                  ELSE now - THIRTY_DAYS
             /\ (fg[i].pc \in {"page", "me"} /\ fg'[i].pc \in {"page", "me"}) =>
                   fg'[i].since = fg[i].since ]_vars

C12_BoundIsStoredCursor ==
    /\ ev.what = "tokenPageRequest"
    /\ cursor # None
    /\ \E i \in 1..Len(fg) :
          /\ fg[i].kind = "token"
          /\ fg[i].pc = "page"
          /\ fg[i].pages = 1
          /\ fg[i].since = Val(cursor)

\* C13: a page load that finds a saved token and no cached task starts
\* exactly one fetchTasksForToken with loading set and no background
\* refresh, the auto-connect that follows starts no other, and the lower
\* bound that fetch takes after its identity lookup is thirty days before
\* now, also when a cursor is stored.
C13_EmptyBootstrap ==
    [][ /\ (ev'.what \in LoadEvents /\ IsSome(storedToken) /\ Len(getTasks) = 0) =>
                /\ Len(fg') = 1
                /\ fg'[1].kind = "token"
                /\ fg'[1].pc = "user"
                /\ loading'
                /\ bg' = IdleOp
        /\ (ev.what = "loadEmpty" /\ ev'.what = "autoConnect") => fg' = fg
        /\ (ev.what = "loadEmpty" /\ ev'.what = "tokenPageRequest") =>
                fg'[1].since = now - THIRTY_DAYS ]_vars

TokenEndEvents == TokenDoneEvents \cup {"tokenFailed", "tokenThrew"}
LookbackEndEvents == LookbackDoneEvents \cup {"lookbackFailed", "lookbackThrew"}

\* C14: a step that ends a fetch (background, foreground or full-history)
\* on a failed request leaves the stored token and the snapshot as they
\* were, and the cached list that was there when the fetch was called is
\* the cached list afterwards.
C14_FailureKeepsCredentialAndCache ==
    [][ ( /\ ev'.what \in AutoEndEvents \cup TokenEndEvents \cup LookbackEndEvents
          /\ ev'.failure # "none" ) =>
            /\ storedToken' = storedToken
            /\ snapshot' = snapshot
            /\ ev'.cleared # <<>> =>
                  (snapshot'.kind = "valid" /\ snapshot'.tasks = ev'.cleared) ]_vars

IsSynthetic(ts) == Len(ts) > 0 /\ \A i \in DOMAIN ts : ts[i].id # 0

\* C15: when fetchTasksForToken or fetchTasksWithLookback has ended on a
\* failed request (identity lookup, a page answered non-OK, a transport
\* exception), an error is shown and the displayed list is a non-empty list
\* of generated placeholder tasks.
C15_ForegroundFailureOutcome ==
    (ev.what \in TokenEndEvents \cup LookbackEndEvents /\ ev.failure # "none") =>
        /\ error # ""
        /\ IsSynthetic(tasks)

\* The error a failed identity lookup would show if its kind alone decided.
ErrorOfFailure(failure, status) ==
    IF failure = "user-throw" THEN "network"
    ELSE IF failure = "user-http" THEN
        IF status = 401 THEN "auth"
        ELSE IF status = 403 THEN "denied"
        ELSE IF status = 429 THEN "rate"
        ELSE IF status \in 500..599 THEN "server"
        ELSE "failed"
    ELSE "failed"

\* C16: when fetchTasksForToken has ended on a failed identity lookup, the
\* error shown is the one of the failure's kind (401 authentication, 403
\* authorization, 429 rate limit, 5xx server, transport exception network,
\* anything else unknown), whatever the body of the response says; a status
\* outside 500..599 never shows the server error.
C16_ErrorClassification ==
    ev.what = "tokenFailed" =>
        /\ error = ErrorOfFailure(ev.failure, ev.status)
        /\ (ev.failure = "user-http" /\ ev.status \notin 500..599) => error # "server"

\* C17: a connect with 'demo' while no credential is stored, a fetch of all
\* history while the token is 'demo', and the demo timer that follows either
\* leave the snapshot key, the cursor key and the credential store as they
\* were; the call they start only waits for its timer (it sends no request);
\* and when the timer fires, exactly 15 generated completed tasks are shown.
C17_DemoMode ==
    [][ LET demoConnect == /\ ev'.what = "connect" /\ token' = Some(DEMO)
                           /\ storedToken = None
            demoFetchAll == ev'.what = "fetchAll" /\ token = Some(DEMO)
            demoShown == ev'.what = "demoShown"
        IN  /\ (demoConnect \/ demoFetchAll \/ demoShown) =>
                  /\ snapshot' = snapshot
                  /\ cursor' = cursor
                  /\ storedToken' = storedToken
                  /\ storedToken' # Some(DEMO)
            /\ (demoConnect \/ demoFetchAll) =>
                  /\ Len(fg') = Len(fg) + 1
                  /\ fg'[Len(fg')].pc = "demo"
            /\ demoShown =>
                  /\ Len(tasks') = DemoMockCount
                  /\ IsSynthetic(tasks')
                  /\ \A i \in DOMAIN tasks' : tasks'[i].completed ]_vars

\* C18: in every reachable state the persisted list, when there is one, holds
\* only records that have a gid, and no two of its records have the same gid.
C18_CacheWellFormed ==
    snapshot.kind = "valid" => HasDistinctGids(snapshot.tasks)

\* C19: right after handleDisconnect the token key, the task key and the
\* last-sync key are absent from localStorage, the token state is null and
\* the displayed list is empty.
C19_Disconnect ==
    ev.what = "disconnect" =>
        /\ storedToken = None
        /\ snapshot = Absent
        /\ cursor = None
        /\ token = None
        /\ tasks = <<>>

\* A disconnect of a session that had loaded a stale cache: its background
\* refresh is still waiting for an answer.
C19_DisconnectedWithRefreshInFlight ==
    ev.what = "disconnect" /\ bg.pc # "idle"

\* C20: in every reachable state at most one foreground fetch
\* (fetchTasksForToken, fetchTasksWithLookback) is in flight: a connect or a
\* fetch of all history that arrives while a foreground fetch waits for its
\* answer starts no second one.
C20_InFlightBound == Len(fg) <= 1

\* C21: a fetch that persists writes its own result, computed from the list
\* it read when it started and the records it received (the fetch of all
\* history: the records received), whatever another fetch has persisted in
\* between; the last writer's list is the persisted one.
C21_LastWriteWins ==
    [][ ev'.what \in CursorEvents =>
          /\ snapshot' = Cache(IF ev'.what = "lookbackSaved" THEN ev'.batch
                                ELSE MergeTasks(ev'.existing, ev'.batch), now')
          /\ cursor' = Some(now') ]_vars

\* A background refresh that completed last and removed from the persisted
\* list an identifier a foreground fetch had written while both were in
\* flight.
C21_LostUpdate ==
    /\ ev.what = "autoMerged"
    /\ ev.lost # {}
    /\ snapshot.kind = "valid"
    /\ ev.lost \cap Gids(snapshot.tasks) = {}

\* The stored item has the shape {tasks: array, timestamp: number}.
IsValidItem(item) ==
    \/ item.kind = "valid"
    \/ /\ item.kind = "json"
       /\ item.value.t = "obj"
       /\ item.value.tasks.t = "arr"
       /\ item.value.timestamp.t = "num"

\* C22: whatever is stored under the task key and whether or not
\* localStorage raises, getTasks returns an array, the empty one unless the
\* stored item has the shape {tasks: array, timestamp: number} and could be
\* read; and no operation of the two stores raises to its caller.
C22_StorageDegradation ==
    /\ ev.result.t # "throw"
    /\ ev.what = "getTasks" =>
          /\ ev.result.t = "arr"
          /\ (ev.throws \/ ~IsValidItem(snapshot)) => ev.result.items = <<>>

\* C23: two background refreshes that issue a request are more than five
\* minutes apart: when a page load starts autoRefreshTasks while the refresh
\* started by the page load before is still waiting for its answer, more
\* than FIVE_MINUTES_MS lie between the two starts.
C23_BackgroundRefreshRate ==
    [][ (bg.pc # "idle" /\ ev'.what = "loadStale" /\ bg'.pc # "idle") =>
            bg'.start - bg.start > FIVE_MINUTES_MS ]_vars

\* C24: a page load that finds a stale cache and no last-sync date starts no
\* request (autoRefreshTasks returns at once); a background refresh whose
\* fetch brought no record writes nothing.  Both leave the persisted
\* snapshot with its timestamp and the last-sync date as they were, and the
\* displayed list is the cached one.
C24_BackgroundNoOp ==
    [][ /\ (ev'.what = "loadStale" /\ cursor = None) =>
              /\ bg'.pc = "idle" /\ ~autoRefreshing'
              /\ snapshot' = snapshot /\ cursor' = cursor
              /\ tasks' = getTasks
        /\ (bg.pc = "page" /\ ev'.what \in {"autoNoNew", "autoMerged"}
                /\ ev'.batch = <<>>) =>
              /\ snapshot' = snapshot /\ cursor' = cursor
              /\ tasks' = tasks ]_vars

\* A page was loaded on a stale cache whose last-sync date is missing (its
\* write had not gone through).
C24_StaleLoadWithoutCursor ==
    /\ ev.what = "loadStale"
    /\ cursor = None
    /\ snapshot.kind = "valid"
    /\ bg.pc = "idle"

\* The position of the first answer of the chain that announces no further
\* page, and the completed records of the answers up to position k.
RECURSIVE LastPage(_, _)
LastPage(chain, k) ==
    IF chain[k].kind = "ok" /\ chain[k].next THEN LastPage(chain, k + 1) ELSE k
RECURSIVE CompletedUpTo(_, _)
CompletedUpTo(chain, k) ==
    IF k = 0 THEN <<>>
    ELSE CompletedUpTo(chain, k - 1)
            \o SelectSeq(chain[k].data, LAMBDA t : t.completed)

\* C25: against a finite listing fetchAssignedTasks requests the pages one
\* by one in order, each once, a further one exactly when the answer before
\* announced a next page; it returns when an answer announces none, with
\* the completed records of the pages it received, in page order.
C25_PaginationFollowing ==
    /\ ev.requested = [n \in 1..Len(ev.requested) |-> n]
    /\ Len(ev.requested) <= LastPage(ev.chain, 1)
    /\ ev.what = "requested" => bg.pc = "page" /\ bg.pages = Len(ev.requested)
    /\ ev.what = "returned" =>
          /\ Len(ev.requested) = LastPage(ev.chain, 1)
          /\ ev.returned = CompletedUpTo(ev.chain, Len(ev.requested))

\* A call that followed MaxChain pages and left an uncompleted record out.
C25_ReturnedAfterAllPages ==
    /\ ev.what = "returned"
    /\ Len(ev.requested) = MaxChain
    /\ \A n \in 1..MaxChain : ev.chain[n].kind = "ok"
    /\ \E n \in 1..MaxChain : \E i \in DOMAIN ev.chain[n].data :
            ~ev.chain[n].data[i].completed
    /\ Len(ev.returned) > 1

\* The gids of a batch that are not cached, in the order of their first
\* occurrence in the batch.
RECURSIVE NewGidsInOrder(_, _)
NewGidsInOrder(seen, batch) ==
    IF batch = <<>> THEN <<>>
    ELSE IF Head(batch).gid \in seen \cup {0}
         THEN NewGidsInOrder(seen, Tail(batch))
         ELSE <<Head(batch).gid>>
                \o NewGidsInOrder(seen \cup {Head(batch).gid}, Tail(batch))

\* C26: when autoRefreshTasks or fetchTasksForToken has merged a batch into
\* the list it read from the cache, the records that were cached come first
\* in the merged list, each at the position it had (also when the batch
\* replaced it), and the records with new gids follow in the order the
\* batch had them.
C26_MergeOutputOrder ==
    ev.what \in MergeEvents =>
        LET cached == ev.existing
            merged == getTasks
            added == NewGidsInOrder({cached[i].gid : i \in DOMAIN cached}, ev.batch)
        IN  /\ Len(merged) = Len(cached) + Len(added)
            /\ \A i \in DOMAIN cached : merged[i].gid = cached[i].gid
            /\ \A j \in DOMAIN added : merged[Len(cached) + j].gid = added[j]

\* C27: when fetchTasksForToken or fetchTasksWithLookback has ended without
\* a failed request and without an error, displaying a non-empty list of
\* records received from the server, the persisted list is the displayed
\* one; the lists found by the assignee=me queries tried after an empty
\* primary answer included.
C27_DisplayedEqualsPersisted ==
    ( /\ ev.what \in TokenEndEvents \cup LookbackEndEvents
      /\ ev.failure = "none" /\ error = ""
      /\ ev.batch # <<>> /\ tasks # <<>> ) =>
        /\ snapshot.kind = "valid"
        /\ snapshot.tasks = tasks

\* C28: a fetch applies its result only to the session that started it:
\* in every reachable state without a credential (token state null, no
\* token stored) nothing is displayed and neither the snapshot nor the
\* last-sync date is stored.
C28_NoEffectFromSupersededFetch ==
    (token = None /\ storedToken = None) =>
        /\ tasks = <<>>
        /\ snapshot = Absent
        /\ cursor = None

\* C29: a step of a fetch that advances the stored last-sync date leaves as
\* the persisted snapshot the list that same fetch saved, stamped with the
\* time of the step; the date does not move when the write of the list did
\* not go through.
C29_SnapshotAndCursorTogether ==
    [][ (ev'.what \in CursorEvents /\ cursor' # cursor) =>
          /\ cursor' = Some(now')
          /\ snapshot' = Cache(IF ev'.what = "lookbackSaved" THEN ev'.batch
                                ELSE MergeTasks(ev'.existing, ev'.batch), now') ]_vars

\* C30: when every request is answered and every listing ends, loading does
\* not stay set and autoRefreshing does not stay set: whichever way a
\* foreground fetch, the demo timer or a background refresh ends, it clears
\* its indicator.
C30_BusyIndicatorsCleared ==
    /\ loading ~> ~loading
    /\ autoRefreshing ~> ~autoRefreshing

\* A fetch has ended on its last path (primary query and both fallback
\* queries without a record) and loading is cleared.
C30_ClearedAfterFallbacks ==
    /\ ev.what = "tokenNothing"
    /\ ~loading
    /\ fg = <<>>
====
